---- MODULE Spec2Model ----
(***************************************************************************)
(* A model of the skip list of src/src/lib.rs: SkipList<T, NUM_LEVELS>,    *)
(* its nodes (SkipListNode), the level generator, the shared traversal,    *)
(* insertion and the teardown of the node chain.                           *)
(*                                                                         *)
(* The heap is the sequence `nodes`: nodes[i] is the node allocated i-th,  *)
(* the head sentinel is nodes[1], a Link is a node index or None (0).      *)
(* next[level] of the source is next[level + 1] here (sequences are        *)
(* 1-based).  usize is a machine word of WordBits bits.                    *)
(***************************************************************************)
EXTENDS Integers, Sequences, FiniteSets, Bags, TLC

\* ------------------------------------------------------------------ bounds
WordBits == 3          \* bit width of usize in the model
MaxVal == 3            \* items are drawn from 1..MaxVal
MaxInserts == 3        \* insert calls per list
MaxDraws == 2          \* direct calls of gen_level per list
MaxStepInserts == 2    \* insert calls per list when the operations run step by step
MaxPairInserts == 2    \* insert calls per list when two runs are held side by side

Values == 1..MaxVal
None == 0              \* Option::None, for a Link and for val
head == 1              \* the index of the head sentinel in nodes

RECURSIVE Pow2(_)
Pow2(n) == IF n = 0 THEN 1 ELSE 2 * Pow2(n - 1)

USIZE_MAX == Pow2(WordBits) - 1
Words == 0..USIZE_MAX

VARIABLES
    NUM_LEVELS,        \* the const generic parameter of the list
    pc,                \* "start", "live", "dropping", "dropped", "panicked"
    nodes,             \* the heap of SkipListNode
    len,               \* SkipList.len
    node,              \* the cursor `node` of the running Drop::drop of the head
    released,          \* released[i]: how many times nodes[i] was deallocated
    read_released,     \* a deallocated node was read or written
    depth,             \* the deepest nesting of node releases seen so far
    inserted,          \* history: the items of the completed insert calls, in order
    drawn,             \* history: the direct calls of gen_level, [rand, level] each
    trav,              \* the running find or insert, when run step by step
    twin               \* the heap of a second run that is given the same calls

vars == <<NUM_LEVELS, pc, nodes, len, node, released,
          read_released, depth, inserted, drawn, trav, twin>>

\* ------------------------------------------------------------- usize maths
\* What an overflowing usize operation does depends on the build: with
\* overflow_checks it panics, without it wraps.  An operation takes the build as
\* its argument and the actions draw it.

\* a - b on usize
usize_sub(a, b, overflow_checks) ==
    IF a >= b THEN [panic |-> FALSE, val |-> a - b]
    ELSE [panic |-> overflow_checks, val |-> (a - b + Pow2(WordBits)) % Pow2(WordBits)]

\* 1 << s on usize: on s >= WordBits a panic, or the shift amount taken modulo
\* the width
usize_shl1(s, overflow_checks) ==
    IF s < WordBits THEN [panic |-> FALSE, val |-> Pow2(s)]
    ELSE [panic |-> overflow_checks, val |-> Pow2(s % WordBits)]

RECURSIVE BitAnd(_, _)
BitAnd(a, b) ==
    IF a = 0 \/ b = 0 THEN 0
    ELSE (a % 2) * (b % 2) + 2 * BitAnd(a \div 2, b \div 2)

RECURSIVE trailing_ones(_)
trailing_ones(x) == IF x % 2 = 1 THEN 1 + trailing_ones(x \div 2) ELSE 0

\* ------------------------------------------------------------------- nodes
new_head(overflow_checks) ==
    LET l == usize_sub(NUM_LEVELS, 1, overflow_checks)
    IN [panic |-> l.panic,
        node |-> [level |-> l.val, val |-> None, prev |-> None,
                  next |-> [i \in 1..NUM_LEVELS |-> None]]]

new(val, level, prev) ==
    [level |-> level, val |-> val, prev |-> prev,
     next |-> [i \in 1..NUM_LEVELS |-> None]]

is_head(n) == nodes[n].prev = None

\* ----------------------------------------------------------- gen_level
\* Mutant of gen_level: the random word is not masked to its low NUM_LEVELS-1 bits
gen_level_unmasked(rand, overflow_checks) ==
    LET max_level == usize_sub(NUM_LEVELS, 1, overflow_checks)
        shl == usize_shl1(max_level.val, overflow_checks)
    IN [panic |-> max_level.panic \/ shl.panic, level |-> trailing_ones(rand)]

\* Mutant of gen_level: the mask keeps NUM_LEVELS low bits, one too many
gen_level_wide_mask(rand, overflow_checks) ==
    LET max_level == usize_sub(NUM_LEVELS, 1, overflow_checks)
        shl == usize_shl1(max_level.val, overflow_checks)
    IN [panic |-> max_level.panic \/ shl.panic,
        level |-> trailing_ones(BitAnd(rand, 2 * shl.val - 1))]

gen_level(rand, overflow_checks) ==
    LET max_level == usize_sub(NUM_LEVELS, 1, overflow_checks)
        shl == usize_shl1(max_level.val, overflow_checks)
        mask == shl.val - 1
        jawn == BitAnd(rand, mask)
    IN [panic |-> max_level.panic \/ shl.panic, level |-> trailing_ones(jawn)]

\* ------------------------------------------------------------- traversal
\* assert!(level < NUM_LEVELS) of the node layer
level_in_range(level) == level < NUM_LEVELS

\* A closure |_, next| ... of the traversals is the function of next.val it computes
ValOpt == {None} \cup Values

\* Result<&Self, &Self>: Ok(next) when the link is Some and f holds of it, Err(self) otherwise
next_if(h, n, level, f) ==
    LET nxt == h[n].next[level + 1]
    IN IF nxt # None /\ f[h[nxt].val] THEN [ok |-> TRUE, node |-> nxt]
       ELSE [ok |-> FALSE, node |-> n]

next_if_mut(h, n, level, f) ==
    LET nxt == h[n].next[level + 1]
    IN IF nxt # None /\ f[h[nxt].val] THEN [ok |-> TRUE, node |-> nxt]
       ELSE [ok |-> FALSE, node |-> n]

\* Mutant of proceed_at_level_while: one conditional advance instead of the loop
proceed_one_step(h, n, level, f) == next_if(h, n, level, f).node

RECURSIVE proceed_at_level_while(_, _, _, _)
proceed_at_level_while(h, n, level, f) ==
    LET r == next_if(h, n, level, f)
    IN IF r.ok THEN proceed_at_level_while(h, r.node, level, f) ELSE r.node

\* Mutant of proceed_at_level_while_mut: one conditional advance instead of the loop
proceed_one_step_mut(h, n, level, f) == next_if_mut(h, n, level, f).node

RECURSIVE proceed_at_level_while_mut(_, _, _, _)
proceed_at_level_while_mut(h, n, level, f) ==
    LET r == next_if_mut(h, n, level, f)
    IN IF r.ok THEN proceed_at_level_while_mut(h, r.node, level, f) ELSE r.node

\* Mutant of find_node_pred: item > v2, the traversal stops before the equal values
find_node_pred_strict(item) == [v2 \in ValOpt |-> v2 # None /\ item > v2]

\* |_, next| next.val().map_or(false, |v2| item >= v2) of find_node
find_node_pred(item) == [v2 \in ValOpt |-> v2 # None /\ item >= v2]

\* for level in (0..NUM_LEVELS).rev(): `levels` is the number of levels still to visit
RECURSIVE find_node_from(_, _, _)
find_node_from(n, levels, item) ==
    IF levels = 0 THEN n
    ELSE find_node_from(
             proceed_at_level_while(nodes, n, levels - 1, find_node_pred(item)),
             levels - 1, item)

find_node(item) == find_node_from(head, NUM_LEVELS, item)

\* Mutant of find_node_mut_pred: item > v2
find_node_mut_pred_strict(item) == [v2 \in ValOpt |-> v2 # None /\ item > v2]

\* |_, next| next.val().map_or(false, |v2| item >= v2) of find_node_mut
find_node_mut_pred(item) == [v2 \in ValOpt |-> v2 # None /\ item >= v2]

\* for level in (0..NUM_LEVELS).rev() of find_node_mut
RECURSIVE find_node_mut_from(_, _, _)
find_node_mut_from(n, levels, item) ==
    IF levels = 0 THEN n
    ELSE find_node_mut_from(
             proceed_at_level_while_mut(nodes, n, levels - 1, find_node_mut_pred(item)),
             levels - 1, item)

find_node_mut(item) == find_node_mut_from(head, NUM_LEVELS, item)

\* Mutant of find: the value of the landed node, not compared with item
find_any_value(item) == nodes[find_node(item)].val

\* Option<&T>: the value of the landed node when it equals item, None otherwise

find(item) ==
    LET val == nodes[find_node(item)].val
    IN IF val # None THEN (IF val = item THEN val ELSE None) ELSE None

contains(item) == find(item) # None

\* --------------------------------------------------------------- insert
\* Mutant of insert_pred: item > v2, a new node goes before the nodes equal to it
insert_pred_strict(item) == [v2 \in ValOpt |-> v2 # None /\ item > v2]

\* Mutant of insert_pred: the comparison is reversed
insert_pred_reversed(item) == [v2 \in ValOpt |-> v2 # None /\ item <= v2]

\* |_, next| next.val().map_or(false, |v2| item >= v2) of insert
insert_pred(item) == [v2 \in ValOpt |-> v2 # None /\ item >= v2]

\* Mutant of splice: the replaced link is not handed to the new node
splice_drop_tail(h, n, level, new_node) ==
    [heap |-> [h EXCEPT ![n].next[level + 1] = new_node],
     old_next |-> h[n].next[level + 1]]

\* Mutant of splice: the link is read after it was replaced, so the new node is
\* linked to itself
splice_self_link(h, n, level, new_node) ==
    [heap |-> [h EXCEPT ![n].next[level + 1] = new_node,
                        ![new_node].next[level + 1] = new_node],
     old_next |-> new_node]

\* node.next[level].replace(new_node); new_node.next[level] = old_next
splice(h, n, level, new_node) ==
    LET old_next == h[n].next[level + 1]
    IN [heap |-> [h EXCEPT ![n].next[level + 1] = new_node,
                           ![new_node].next[level + 1] = old_next],
        old_next |-> old_next]

\* Mutant of insert_loop: the splice is made at every level, whatever the height
\* drawn for the new node
RECURSIVE insert_loop_all_levels(_, _, _, _, _)
insert_loop_all_levels(h, n, level, new_node, overflow_checks) ==
    LET dec == usize_sub(level, 1, overflow_checks)
    IN IF dec.panic \/ ~level_in_range(dec.val)
       THEN [panic |-> TRUE, heap |-> h, node |-> n, old_next |-> None]
       ELSE LET at == proceed_at_level_while_mut(h, n, dec.val,
                                                 insert_pred(h[new_node].val))
                s == splice(h, at, dec.val, new_node)
            IN IF dec.val = 0
               THEN [panic |-> FALSE, heap |-> s.heap, node |-> at,
                     old_next |-> s.old_next]
               ELSE insert_loop_all_levels(s.heap, at, dec.val, new_node, overflow_checks)

\* The loop of insert, entered with `level` not yet decremented.  The result is
\* the heap, the node the level-0 splice was made after and the link it replaced,
\* or a panic (level -= 1 below 0, or the assert of proceed_at_level_while_mut).
RECURSIVE insert_loop(_, _, _, _, _)
insert_loop(h, n, level, new_node, overflow_checks) ==
    LET dec == usize_sub(level, 1, overflow_checks)
    IN IF dec.panic \/ ~level_in_range(dec.val)
       THEN [panic |-> TRUE, heap |-> h, node |-> n, old_next |-> None]
       ELSE LET at == proceed_at_level_while_mut(h, n, dec.val,
                                                 insert_pred(h[new_node].val))
            IN IF dec.val <= h[new_node].level
               THEN LET s == splice(h, at, dec.val, new_node)
                    IN IF dec.val = 0
                       THEN [panic |-> FALSE, heap |-> s.heap, node |-> at,
                             old_next |-> s.old_next]
                       ELSE insert_loop(s.heap, at, dec.val, new_node, overflow_checks)
               ELSE insert_loop(h, at, dec.val, new_node, overflow_checks)

\* Mutant of link_prev: the backward link of the successor is not repaired
link_prev_new_only(h, n, new_node, old_next) == [h EXCEPT ![new_node].prev = n]

\* new_node.prev = Some(node); if let Some(old_next): old_next.prev = Some(new_node)
link_prev(h, n, new_node, old_next) ==
    LET h1 == [h EXCEPT ![new_node].prev = n]
    IN IF old_next # None THEN [h1 EXCEPT ![old_next].prev = new_node] ELSE h1

\* SkipList::new
New(overflow_checks) ==
    /\ pc = "start"
    /\ LET hd == new_head(overflow_checks)
       IN IF hd.panic
          THEN /\ pc' = "panicked"
               /\ UNCHANGED <<nodes, released>>
          ELSE /\ pc' = "live"
               /\ nodes' = <<hd.node>>
               /\ released' = <<0>>
    /\ len' = 0
    /\ UNCHANGED <<twin, NUM_LEVELS, node, read_released, depth, inserted, drawn, trav>>

\* SkipList::insert(item).  The word that self.rng.usize(..) returns inside
\* gen_level is any word: g is the result of gen_level for some word.
insert(item, overflow_checks) ==
    /\ pc = "live"
    /\ Len(inserted) < MaxInserts
    /\ \E g \in {gen_level(rand, overflow_checks) : rand \in Words} :
       \E r \in {insert_loop(Append(nodes, new(item, g.level, None)), head,
                              NUM_LEVELS, Len(nodes) + 1, overflow_checks)} :
       LET new_node == Len(nodes) + 1
       IN IF g.panic
          THEN /\ pc' = "panicked"
               /\ UNCHANGED <<nodes, released, inserted>>
          ELSE IF r.panic
          THEN /\ pc' = "panicked"
               /\ nodes' = r.heap
               /\ released' = Append(released, 0)
               /\ UNCHANGED inserted
          ELSE /\ pc' = "live"
               /\ nodes' = link_prev(r.heap, r.node, new_node, r.old_next)
               /\ released' = Append(released, 0)
               /\ inserted' = Append(inserted, item)
    /\ UNCHANGED <<twin, NUM_LEVELS, len, node, read_released, depth, drawn, trav>>

\* A call of the public gen_level(&self) on a list, with `rand` the word that
\* self.rng.usize(..) returns
call_gen_level(rand, overflow_checks) ==
    /\ pc = "live"
    /\ Len(drawn) < MaxDraws
    /\ \E g \in {gen_level(rand, overflow_checks)} :
          IF g.panic
          THEN pc' = "panicked" /\ UNCHANGED drawn
          ELSE pc' = "live" /\ drawn' = Append(drawn, [rand |-> rand, level |-> g.level])
    /\ UNCHANGED <<twin, NUM_LEVELS, nodes, len, node, released, read_released, depth, inserted,
                   trav>>

\* ------------------------------------------------------ two runs side by side
\* The same program run twice on the same calls: `nodes` is the first run's heap,
\* `twin` the second's.  The runs share NUM_LEVELS and the build; each has its own
\* rng, so each insert draws its height from its own word.
new_pair(overflow_checks) ==
    /\ pc = "start"
    /\ LET hd == new_head(overflow_checks)
       IN IF hd.panic
          THEN /\ pc' = "panicked"
               /\ UNCHANGED <<nodes, twin, released>>
          ELSE /\ pc' = "live"
               /\ nodes' = <<hd.node>>
               /\ twin' = <<hd.node>>
               /\ released' = <<0>>
    /\ len' = 0
    /\ UNCHANGED <<NUM_LEVELS, node, read_released, depth, inserted, drawn, trav>>

\* SkipList::insert(item) with the new node's height already drawn, on heap h
insert_at_height(h, item, new_node_level, overflow_checks) ==
    LET new_node == Len(h) + 1
        r == insert_loop(Append(h, new(item, new_node_level, None)), head,
                         NUM_LEVELS, new_node, overflow_checks)
    IN [panic |-> r.panic,
        heap |-> IF r.panic THEN r.heap
                 ELSE link_prev(r.heap, r.node, new_node, r.old_next)]

insert_pair(item, overflow_checks) ==
    /\ pc = "live"
    /\ Len(inserted) < MaxPairInserts
    /\ \E g1, g2 \in {gen_level(rand, overflow_checks) : rand \in Words} :
       \E r1 \in {insert_at_height(nodes, item, g1.level, overflow_checks)} :
       \E r2 \in {insert_at_height(twin, item, g2.level, overflow_checks)} :
          IF g1.panic \/ g2.panic
          THEN /\ pc' = "panicked"
               /\ UNCHANGED <<nodes, twin, released, inserted>>
          ELSE /\ pc' = IF r1.panic \/ r2.panic THEN "panicked" ELSE "live"
               /\ nodes' = r1.heap
               /\ twin' = r2.heap
               /\ released' = Append(released, 0)
               /\ inserted' = IF r1.panic \/ r2.panic THEN inserted
                               ELSE Append(inserted, item)
    /\ UNCHANGED <<NUM_LEVELS, len, node, read_released, depth, drawn, trav>>

\* find_node, find and contains of the second run
RECURSIVE twin_find_node_from(_, _, _)
twin_find_node_from(n, levels, item) ==
    IF levels = 0 THEN n
    ELSE twin_find_node_from(
             proceed_at_level_while(twin, n, levels - 1, find_node_pred(item)),
             levels - 1, item)

twin_find_node(item) == twin_find_node_from(head, NUM_LEVELS, item)

twin_find(item) ==
    LET val == twin[twin_find_node(item)].val
    IN IF val # None THEN (IF val = item THEN val ELSE None) ELSE None

twin_contains(item) == twin_find(item) # None

\* ------------------------------------------------- operations step by step
\* find and insert as the loops they are.  trav.op is the running operation
\* ("idle" before the first, "done" after one has returned), trav.node the
\* traversal's `node`, trav.level its `level`, trav.left the number of levels the
\* for loop of find_node has not yet yielded, trav.at where control is:
\*   "for"   at the head of the for loop of find_node
\*   "loop"  at the head of the loop of insert, before level -= 1
\*   "walk"  inside proceed_at_level_while(_mut), before the next next_if(_mut)
\* trav.result is what the finished find returned, trav.visited (history) the
\* levels the operation has handed to proceed_at_level_while(_mut), in order.
Idle == [op |-> "idle", at |-> "", item |-> None, level |-> 0, left |-> 0,
         node |-> None, new_node |-> None, result |-> None, visited |-> <<>>]

Between == pc = "live" /\ trav.op \in {"idle", "done"}

\* find(item) is called: let mut node = self.head.as_ref()
find_begin(item) ==
    /\ Between
    /\ trav' = [op |-> "find", at |-> "for", item |-> item, level |-> 0,
                left |-> NUM_LEVELS, node |-> head, new_node |-> None, result |-> None,
                visited |-> <<>>]
    /\ UNCHANGED <<twin, NUM_LEVELS, pc, nodes, len, node, released, read_released, depth,
                   inserted, drawn>>

\* for level in (0..NUM_LEVELS).rev(): the next level and the entry of
\* proceed_at_level_while with its assert, or the end of the loop and the match of
\* find on the landed node's value
find_for ==
    /\ pc = "live" /\ trav.op = "find" /\ trav.at = "for"
    /\ IF trav.left = 0
       THEN /\ trav' = [trav EXCEPT !.op = "done", !.at = "",
                                    !.result = IF nodes[trav.node].val = trav.item
                                               THEN nodes[trav.node].val ELSE None]
            /\ pc' = pc
       ELSE IF level_in_range(trav.left - 1)
       THEN /\ trav' = [trav EXCEPT !.left = @ - 1, !.level = trav.left - 1, !.at = "walk",
                                    !.visited = Append(@, trav.left - 1)]
            /\ pc' = pc
       ELSE /\ pc' = "panicked"
            /\ trav' = trav
    /\ UNCHANGED <<twin, NUM_LEVELS, nodes, len, node, released, read_released, depth,
                   inserted, drawn>>

\* curr.next_if(level, &mut f) is Ok(next): curr = next
find_advance ==
    /\ pc = "live" /\ trav.op = "find" /\ trav.at = "walk"
    /\ \E r \in {next_if(nodes, trav.node, trav.level, find_node_pred(trav.item))} :
          /\ r.ok
          /\ trav' = [trav EXCEPT !.node = r.node]
    /\ UNCHANGED <<twin, NUM_LEVELS, pc, nodes, len, node, released, read_released, depth,
                   inserted, drawn>>

\* curr.next_if(level, &mut f) is Err(curr): proceed_at_level_while returns curr
find_stop ==
    /\ pc = "live" /\ trav.op = "find" /\ trav.at = "walk"
    /\ \E r \in {next_if(nodes, trav.node, trav.level, find_node_pred(trav.item))} :
          /\ ~r.ok
          /\ trav' = [trav EXCEPT !.at = "for"]
    /\ UNCHANGED <<twin, NUM_LEVELS, pc, nodes, len, node, released, read_released, depth,
                   inserted, drawn>>

\* insert(item) is called: gen_level, the new node is allocated,
\* node = self.head.as_mut(), level = NUM_LEVELS
ins_begin(item, overflow_checks) ==
    /\ Between
    /\ Len(inserted) < MaxStepInserts
    /\ \E g \in {gen_level(rand, overflow_checks) : rand \in Words} :
          IF g.panic
          THEN /\ pc' = "panicked"
               /\ UNCHANGED <<nodes, released, trav>>
          ELSE /\ pc' = pc
               /\ nodes' = Append(nodes, new(item, g.level, None))
               /\ released' = Append(released, 0)
               /\ trav' = [op |-> "insert", at |-> "loop", item |-> item,
                           level |-> NUM_LEVELS, left |-> 0, node |-> head,
                           new_node |-> Len(nodes) + 1, result |-> None,
                           visited |-> <<>>]
    /\ UNCHANGED <<twin, NUM_LEVELS, len, node, read_released, depth, inserted, drawn>>

\* level -= 1, then the entry of proceed_at_level_while_mut with its assert
ins_dec(overflow_checks) ==
    /\ pc = "live" /\ trav.op = "insert" /\ trav.at = "loop"
    /\ \E dec \in {usize_sub(trav.level, 1, overflow_checks)} :
          IF dec.panic \/ ~level_in_range(dec.val)
          THEN pc' = "panicked" /\ trav' = trav
          ELSE pc' = pc /\ trav' = [trav EXCEPT !.level = dec.val, !.at = "walk",
                                                !.visited = Append(@, dec.val)]
    /\ UNCHANGED <<twin, NUM_LEVELS, nodes, len, node, released, read_released, depth,
                   inserted, drawn>>

\* curr.next_if_mut(level, &mut f) is Ok(next): curr = next
ins_advance ==
    /\ pc = "live" /\ trav.op = "insert" /\ trav.at = "walk"
    /\ \E r \in {next_if_mut(nodes, trav.node, trav.level, insert_pred(trav.item))} :
          /\ r.ok
          /\ trav' = [trav EXCEPT !.node = r.node]
    /\ UNCHANGED <<twin, NUM_LEVELS, pc, nodes, len, node, released, read_released, depth,
                   inserted, drawn>>

\* Mutant of ins_splice: level < new_node_level, the splice at the node's own
\* height is left out
ins_splice_strict ==
    /\ pc = "live" /\ trav.op = "insert" /\ trav.at = "walk"
    /\ ~next_if_mut(nodes, trav.node, trav.level, insert_pred(trav.item)).ok
    /\ IF trav.level < nodes[trav.new_node].level
       THEN \E s \in {splice(nodes, trav.node, trav.level, trav.new_node)} :
               IF trav.level = 0
               THEN /\ nodes' = link_prev(s.heap, trav.node, trav.new_node, s.old_next)
                    /\ inserted' = Append(inserted, trav.item)
                    /\ trav' = [trav EXCEPT !.op = "done", !.at = ""]
               ELSE /\ nodes' = s.heap
                    /\ trav' = [trav EXCEPT !.at = "loop"]
                    /\ UNCHANGED inserted
       ELSE /\ trav' = [trav EXCEPT !.at = "loop"]
            /\ UNCHANGED <<nodes, inserted>>
    /\ UNCHANGED <<twin, NUM_LEVELS, pc, len, node, released, read_released, depth, drawn>>

\* curr.next_if_mut(level, &mut f) is Err(curr): proceed_at_level_while_mut returns;
\* if level <= new_node_level the splice, and at level 0 the break and the
\* backward links
ins_splice ==
    /\ pc = "live" /\ trav.op = "insert" /\ trav.at = "walk"
    /\ ~next_if_mut(nodes, trav.node, trav.level, insert_pred(trav.item)).ok
    /\ IF trav.level <= nodes[trav.new_node].level
       THEN \E s \in {splice(nodes, trav.node, trav.level, trav.new_node)} :
               IF trav.level = 0
               THEN /\ nodes' = link_prev(s.heap, trav.node, trav.new_node, s.old_next)
                    /\ inserted' = Append(inserted, trav.item)
                    /\ trav' = [trav EXCEPT !.op = "done", !.at = ""]
               ELSE /\ nodes' = s.heap
                    /\ trav' = [trav EXCEPT !.at = "loop"]
                    /\ UNCHANGED inserted
       ELSE /\ trav' = [trav EXCEPT !.at = "loop"]
            /\ UNCHANGED <<nodes, inserted>>
    /\ UNCHANGED <<twin, NUM_LEVELS, pc, len, node, released, read_released, depth, drawn>>

\* ----------------------------------------------------------------- drop
\* The memory during a teardown: the heap, the release counts, whether a released
\* node was accessed, and the deepest nesting of Drop::drop calls below the head's.
Max(a, b) == IF a >= b THEN a ELSE b

RECURSIVE drop_node(_, _, _)
RECURSIVE drop_chain(_, _, _)

\* Mutant of drop_iter: next.next[0] is copied, not taken, so the nested drop of
\* the Box walks the rest of the chain
drop_iter_no_take(st, cur, d) ==
    LET nxt == st.nodes[cur].next[1]
        st1 == [st EXCEPT !.read_released = @ \/ st.released[cur] > 0]
        st2 == drop_node(st1, cur, d + 1)
    IN [st |-> [st2 EXCEPT !.released[cur] = @ + 1], node |-> nxt]

\* One iteration of the while loop of Drop::drop on the link `cur`, at nesting
\* depth d: Box::from_raw(cur); node = next.next[0].take(); then the Box goes out
\* of scope, which runs Drop::drop of `cur` (nested) and deallocates it.
drop_iter(st, cur, d) ==
    LET nxt == st.nodes[cur].next[1]
        st1 == [st EXCEPT !.read_released = @ \/ st.released[cur] > 0,
                          !.nodes[cur].next[1] = None]
        st2 == drop_node(st1, cur, d + 1)
    IN [st |-> [st2 EXCEPT !.released[cur] = @ + 1], node |-> nxt]

\* Drop::drop(&mut self) of node n run to its end, at nesting depth d
drop_node(st, n, d) ==
    LET first == st.nodes[n].next[1]
        st1 == [st EXCEPT !.read_released = @ \/ st.released[n] > 0,
                          !.nodes[n].next[1] = None,
                          !.depth = Max(@, d)]
    IN drop_chain(st1, first, d)

\* while let Some(next) = node { ... } run to its end
drop_chain(st, cur, d) ==
    IF cur = None THEN st
    ELSE LET r == drop_iter(st, cur, d) IN drop_chain(r.st, r.node, d)

memory == [nodes |-> nodes, released |-> released,
           read_released |-> read_released, depth |-> depth]

\* The list goes out of scope: the Box of the head runs Drop::drop of the head,
\* whose first statement is self.next[0].take()
drop_begin ==
    /\ pc = "live"
    /\ IF NUM_LEVELS = 0
       THEN /\ pc' = "panicked"
            /\ UNCHANGED <<nodes, node>>
       ELSE /\ pc' = "dropping"
            /\ node' = nodes[head].next[1]
            /\ nodes' = [nodes EXCEPT ![head].next[1] = None]
    /\ UNCHANGED <<twin, NUM_LEVELS, len, released, read_released,
                   depth, inserted, drawn, trav>>

\* One iteration of the loop of the head's Drop::drop
drop_step ==
    /\ pc = "dropping"
    /\ node # None
    /\ \E r \in {drop_iter(memory, node, 0)} :
          /\ nodes' = r.st.nodes
          /\ released' = r.st.released
          /\ read_released' = r.st.read_released
          /\ depth' = r.st.depth
          /\ node' = r.node
    /\ UNCHANGED <<twin, NUM_LEVELS, pc, len, inserted, drawn, trav>>

\* The loop has ended: the head's fields are dropped and its Box is deallocated
drop_end ==
    /\ pc = "dropping"
    /\ node = None
    /\ pc' = "dropped"
    /\ released' = [released EXCEPT ![head] = @ + 1]
    /\ UNCHANGED <<twin, NUM_LEVELS, nodes, len, node, read_released,
                   depth, inserted, drawn, trav>>

\* ------------------------------------------------------------ specification
Init ==
    /\ NUM_LEVELS \in 0..(WordBits + 1)
    /\ pc = "start"
    /\ nodes = <<>>
    /\ len = 0
    /\ node = None
    /\ released = <<>>
    /\ read_released = FALSE
    /\ depth = 0
    /\ inserted = <<>>
    /\ drawn = <<>>
    /\ trav = Idle
    /\ twin = <<>>

Next ==
    \/ \E overflow_checks \in BOOLEAN : New(overflow_checks)
    \/ \E item \in Values, overflow_checks \in BOOLEAN : insert(item, overflow_checks)
    \/ drop_begin
    \/ drop_step
    \/ drop_end

Spec == Init /\ [][Next]_vars

\* The level generator alone: lists on which gen_level is called directly
NextGen ==
    \/ \E overflow_checks \in BOOLEAN : New(overflow_checks)
    \/ \E rand \in Words, overflow_checks \in BOOLEAN : call_gen_level(rand, overflow_checks)

SpecGen == Init /\ [][NextGen]_vars

\* find and insert step by step.  An operation runs to its end without yielding
\* (one thread, no suspension point), so a step that can be taken is taken.
Targets == 0..(MaxVal + 1)

StepOfOperation ==
    \/ find_for
    \/ find_advance
    \/ find_stop
    \/ \E overflow_checks \in BOOLEAN : ins_dec(overflow_checks)
    \/ ins_advance
    \/ ins_splice

NextSteps ==
    \/ \E overflow_checks \in BOOLEAN : New(overflow_checks)
    \/ \E item \in Targets : find_begin(item)
    \/ \E item \in Values, overflow_checks \in BOOLEAN : ins_begin(item, overflow_checks)
    \/ StepOfOperation

SpecSteps == Init /\ [][NextSteps]_vars /\ WF_vars(StepOfOperation)

NextPair ==
    \/ \E overflow_checks \in BOOLEAN : new_pair(overflow_checks)
    \/ \E item \in Values, overflow_checks \in BOOLEAN : insert_pair(item, overflow_checks)

SpecPair == Init /\ [][NextPair]_vars

TypeOK ==
    /\ pc \in {"start", "live", "dropping", "dropped", "panicked"}
    /\ Len(released) = Len(nodes)
    /\ len \in Nat

\* ------------------------------------------------------ reading the heap
\* The nodes met from link n on by next[level], at most `fuel` of them
RECURSIVE Walk(_, _, _)
Walk(n, level, fuel) ==
    IF n = None \/ fuel = 0 THEN <<>>
    ELSE <<n>> \o Walk(nodes[n].next[level + 1], level, fuel - 1)

\* The level-k chain after the head; longer than the heap only if it has a cycle
Chain(level) == Walk(nodes[head].next[level + 1], level, Len(nodes) + 1)

Range(s) == {s[i] : i \in 1..Len(s)}
IsInjective(s) == \A i, j \in 1..Len(s) : s[i] = s[j] => i = j
Elements == 2..Len(nodes)
ValuesOf(s) == [i \in 1..Len(s) |-> nodes[s[i]].val]

\* The level-0 chain of the second run and its values
RECURSIVE TwinWalk(_, _)
TwinWalk(n, fuel) ==
    IF n = None \/ fuel = 0 THEN <<>>
    ELSE <<n>> \o TwinWalk(twin[n].next[1], fuel - 1)

TwinChain == TwinWalk(twin[head].next[1], Len(twin) + 1)
TwinValuesOf(s) == [i \in 1..Len(s) |-> twin[s[i]].val]

RECURSIVE BagOfSeq(_)
BagOfSeq(s) == IF s = <<>> THEN EmptyBag ELSE SetToBag({Head(s)}) (+) BagOfSeq(Tail(s))

\* A list that new() returned for a NUM_LEVELS >= 1, between operations
Live == pc = "live" /\ NUM_LEVELS >= 1
SomeTower == \E n \in Elements : nodes[n].level >= 1

\* ------------------------------------------------------------------ claims
\* C1: after any sequence of insert calls, contains(v) is true for every value v
\* that was inserted, earlier inserts included.
C1_InsertedAreContained ==
    Live => \A i \in 1..Len(inserted) : contains(inserted[i])

C1_Witness ==
    /\ Live /\ Len(inserted) = 3 /\ SomeTower
    /\ inserted[2] < inserted[3] /\ inserted[3] < inserted[1]
    /\ \A i \in 1..3 : contains(inserted[i])

\* C2: a value that was never inserted is absent for find and for contains (on the
\* empty list every value is), and contains(v) is true exactly when find(v) is present.
Queries == Values \cup {MaxVal + 1}

C2_NotInsertedAbsent ==
    Live => \A v \in Queries :
                /\ v \notin Range(inserted) => find(v) = None /\ ~contains(v)
                /\ contains(v) <=> find(v) # None

C2_Witness ==
    /\ Live /\ Len(inserted) >= 2
    /\ \E v \in Values : /\ v \notin Range(inserted)
                         /\ \E i, j \in 1..Len(inserted) : inserted[i] < v /\ v < inserted[j]
                         /\ find(v) = None /\ ~contains(v)

\* C3: the values met along the level-0 links from the head are in non-decreasing order.
C3_Level0Sorted ==
    Live => \A c \in {Chain(0)} :
                \A i \in 1..(Len(c) - 1) : nodes[c[i]].val <= nodes[c[i + 1]].val

C3_Witness ==
    /\ Live /\ Len(inserted) = 3 /\ SomeTower
    /\ inserted[1] > inserted[2] /\ inserted[3] > inserted[2] /\ inserted[3] < inserted[1]
    /\ ValuesOf(Chain(0)) = <<inserted[2], inserted[3], inserted[1]>>

\* C4: the level-0 chain from the head has no cycle and visits every element node
\* exactly once; the multiset of its values is the multiset of the inserted values.
C4_Level0ChainHoldsAll ==
    Live => \A c \in {Chain(0)} :
                /\ IsInjective(c)
                /\ Range(c) = Elements
                /\ BagOfSeq(ValuesOf(c)) = BagOfSeq(inserted)

C4_Witness ==
    /\ Live /\ Len(inserted) = 3 /\ SomeTower
    /\ inserted[1] = inserted[3] /\ inserted[2] < inserted[1]
    /\ Len(Chain(0)) = 3

\* C5: every tower height is in 0..NUM_LEVELS-1, the head's is NUM_LEVELS-1, and an
\* element node of height h is on the level-k chain from the head exactly for k <= h.
C5_HeightsAndLevels ==
    Live => /\ \A n \in 1..Len(nodes) : nodes[n].level \in 0..(NUM_LEVELS - 1)
            /\ nodes[head].level = NUM_LEVELS - 1
            /\ \A k \in 0..(NUM_LEVELS - 1) : \A on_level \in {Range(Chain(k))} :
                   \A n \in Elements : n \in on_level <=> k <= nodes[n].level

C5_Witness ==
    /\ Live /\ NUM_LEVELS >= 3
    /\ \E n, m \in Elements : /\ nodes[n].level = 0 /\ nodes[m].level = NUM_LEVELS - 1
                              /\ n \in Range(Chain(0)) /\ n \notin Range(Chain(1))
                              /\ m \in Range(Chain(NUM_LEVELS - 1))

\* C6: len is incremented once per insertion: after n insert calls on a fresh list
\* len equals n.
C6_LenCountsInserts ==
    Live => len = Len(inserted)

\* C7: new() fails when NUM_LEVELS is 0 or exceeds the width of the machine word,
\* and returns an empty list for every NUM_LEVELS in 1..width.
C7_NewRejectsBadNumLevels ==
    pc # "start" =>
        IF NUM_LEVELS = 0 \/ NUM_LEVELS > WordBits
        THEN pc = "panicked" /\ nodes = <<>>
        ELSE /\ pc # "panicked"
             /\ (pc = "live" /\ inserted = <<>>) =>
                    /\ Len(nodes) = 1
                    /\ \A k \in 0..(NUM_LEVELS - 1) : Chain(k) = <<>>

\* C8: with several nodes equal to v, the traversal for v lands on the last of them
\* in level-0 order, which is the one inserted last (each insert of v goes after
\* every node equal to v), and find(v) returns its value, equal to v.
EqualNodes(v) == {n \in Elements : nodes[n].val = v}
Position(c, n) == IF n \in Range(c) THEN CHOOSE i \in 1..Len(c) : c[i] = n ELSE 0

C8_LastEqualWins ==
    Live => \A c \in {Chain(0)} : \A v \in Range(inserted) :
                \A eq \in {EqualNodes(v)} : \A landed \in {find_node(v)} :
                   /\ landed \in eq
                   /\ \A n \in eq : Position(c, n) <= Position(c, landed)
                   /\ \A n \in eq : n <= landed
                   /\ \A n, m \in eq : n < m => Position(c, n) < Position(c, m)
                   /\ find(v) = nodes[landed].val /\ find(v) = v

C8_Witness ==
    /\ Live /\ SomeTower
    /\ \E v \in Values : /\ Cardinality(EqualNodes(v)) >= 2
                         /\ \E n \in Elements : nodes[n].val > v
                         /\ find_node(v) = Len(nodes)
                         /\ nodes[find_node(v)].next[1] # None

\* C9: the backward link of each element node is its predecessor on the level-0
\* chain (the head for the first), the head's backward link is empty, and is_head
\* holds of the head alone.
C9_PrevIsPredecessor ==
    Live => \A c \in {Chain(0)} :
                /\ nodes[head].prev = None
                /\ \A i \in 1..Len(c) : nodes[c[i]].prev = (IF i = 1 THEN head ELSE c[i - 1])
                /\ \A n \in 1..Len(nodes) : is_head(n) <=> n = head

C9_Witness ==
    /\ Live /\ Len(inserted) = 3
    /\ Chain(0) = <<3, 4, 2>>
    /\ nodes[3].prev = head /\ nodes[4].prev = 3 /\ nodes[2].prev = 4

\* C10: dropping a list releases every element node exactly once: none twice, none
\* left when the drop has ended, and none read after its release.
C10_DropReleasesOnce ==
    /\ \A n \in Elements : released[n] <= 1
    /\ ~read_released
    /\ pc = "dropped" => \A n \in Elements : released[n] = 1

C10_Witness ==
    /\ pc = "dropped" /\ Len(nodes) = 4
    /\ \E n \in Elements : nodes[n].level >= 1 /\ nodes[n].prev # head
    /\ \A n \in Elements : released[n] = 1

\* C11: with M = NUM_LEVELS-1, gen_level returns the number of trailing one-bits of
\* the random word masked to its low M bits: a result in 0..M that is >= k exactly
\* when the low k bits of the word are all ones (k <= M), hence M exactly when the
\* low M bits are all ones, and always 0 when NUM_LEVELS = 1.
LowBitsAllOnes(r, k) == r % Pow2(k) = Pow2(k) - 1

C11_GenLevelTrailingOnes ==
    (pc = "live" /\ NUM_LEVELS \in 1..WordBits) =>
        \A i \in 1..Len(drawn) : \A r \in {drawn[i].rand} : \A out \in {drawn[i].level} :
            /\ out \in 0..(NUM_LEVELS - 1)
            /\ \A k \in 0..(NUM_LEVELS - 1) : out >= k <=> LowBitsAllOnes(r, k)
            /\ out = NUM_LEVELS - 1 <=> LowBitsAllOnes(r, NUM_LEVELS - 1)
            /\ NUM_LEVELS = 1 => out = 0

C11_Witness ==
    /\ pc = "live" /\ NUM_LEVELS = WordBits /\ Len(drawn) = 2
    /\ drawn[1].rand = USIZE_MAX /\ drawn[1].level = NUM_LEVELS - 1
    /\ drawn[2].rand = 1 /\ drawn[2].level = 1

\* C12: find_node(t) returns the rightmost node of the level-0 chain whose value is
\* <= t, or the head if no element is <= t.
Last(s) == s[Len(s)]
NotAbove(c, t) == SelectSeq(c, LAMBDA n : nodes[n].val <= t)
RightmostNotAbove(level, t) ==
    LET le == NotAbove(Chain(level), t) IN IF le = <<>> THEN head ELSE Last(le)
RightmostIndexNotAbove(c, t) ==
    LET idx == {i \in 1..Len(c) : nodes[c[i]].val <= t}
    IN IF idx = {} THEN 0 ELSE CHOOSE i \in idx : \A j \in idx : j <= i

C12_FindNodeRightmost ==
    Live => \A c \in {Chain(0)} : \A t \in Targets :
                \A i \in {RightmostIndexNotAbove(c, t)} :
                    find_node(t) = (IF i = 0 THEN head ELSE c[i])

C12_Witness ==
    /\ Live /\ Len(inserted) = 3 /\ SomeTower
    /\ find_node(0) = head
    /\ \E t \in Values : /\ t \notin Range(inserted)
                         /\ find_node(t) # head
                         /\ nodes[find_node(t)].val < t
                         /\ nodes[find_node(t)].next[1] # None

\* C13: a level-k forward link of a node leads to a node of height >= k that comes
\* strictly later on the level-0 chain; each level-k chain from the head is a
\* subsequence of the level-(k-1) chain with non-decreasing values.
Position0(c, n) == IF n = head THEN 0 ELSE Position(c, n)
IsSubsequence(a, b) ==
    /\ Range(a) \subseteq Range(b)
    /\ \A i, j \in 1..Len(a) : i < j => Position(b, a[i]) < Position(b, a[j])

C13_LinksGoForward ==
    Live => \A c \in {Chain(0)} :
       /\ \A k \in 0..(NUM_LEVELS - 1) : \A n \in 1..Len(nodes) :
              \A m \in {nodes[n].next[k + 1]} :
                  m # None => /\ nodes[m].level >= k
                              /\ m \in Range(c)
                              /\ n = head \/ n \in Range(c)
                              /\ Position0(c, n) < Position0(c, m)
       /\ \A k \in 1..(NUM_LEVELS - 1) : \A ck \in {Chain(k)} :
              /\ IsSubsequence(ck, Chain(k - 1))
              /\ \A i \in 1..(Len(ck) - 1) : nodes[ck[i]].val <= nodes[ck[i + 1]].val

C13_Witness ==
    /\ Live /\ NUM_LEVELS >= 3 /\ Len(inserted) = 3
    /\ Len(Chain(0)) = 3 /\ Len(Chain(1)) = 2 /\ Len(Chain(2)) = 1
    /\ Chain(1)[1] # Chain(0)[1]
    /\ Chain(2)[1] = Chain(1)[2]

\* C14: an insert with drawn height h changes, in existing nodes, only the level-k
\* forward link of the rightmost level-k node <= the new value, for k <= h, and the
\* backward link of the new node's level-0 successor.  Values and heights of
\* existing nodes are unchanged; the new node's links above h stay empty, and at
\* each level k <= h its forward link is the predecessor's former level-k link.
InsertDone == pc = "live" /\ pc' = "live" /\ Len(nodes') = Len(nodes) + 1 /\ NUM_LEVELS >= 1

InsertFrame ==
    \A new_node \in {Len(nodes')} : \A h \in {nodes'[new_node].level} :
    \A item \in {nodes'[new_node].val} :
        /\ \A n \in 1..Len(nodes) : /\ nodes'[n].val = nodes[n].val
                                     /\ nodes'[n].level = nodes[n].level
        /\ \A k \in 0..(NUM_LEVELS - 1) : \A before \in {RightmostNotAbove(k, item)} :
              /\ \A n \in 1..Len(nodes) :
                     nodes'[n].next[k + 1] # nodes[n].next[k + 1] => k <= h /\ n = before
              /\ IF k <= h
                 THEN /\ nodes'[before].next[k + 1] = new_node
                      /\ nodes'[new_node].next[k + 1] = nodes[before].next[k + 1]
                 ELSE nodes'[new_node].next[k + 1] = None
        /\ \A n \in 1..Len(nodes) :
              nodes'[n].prev # nodes[n].prev => n = nodes'[new_node].next[1]

C14_InsertFrame == [][InsertDone => InsertFrame]_vars

C14_Witness ==
    /\ Live /\ NUM_LEVELS >= 3 /\ Len(inserted) = 3
    /\ \A new_node \in {Len(nodes)} :
          /\ nodes[new_node].level = 1
          /\ nodes[new_node].prev # head
          /\ nodes[new_node].next[1] # None
          /\ nodes[new_node].next[2] # None
          /\ nodes[new_node].next[3] = None
          /\ nodes[nodes[new_node].next[1]].prev = new_node

\* C15: with NUM_LEVELS in 1..word width no call of new, insert, find or contains
\* panics: every level a traversal passes to the node layer is in
\* [0, NUM_LEVELS-1], and insert's loop never comes back to `level -= 1` with
\* level 0, it has left by the level-0 splice.
C15_LevelsInRange ==
    NUM_LEVELS \in 1..WordBits =>
        /\ pc # "panicked"
        /\ trav.at = "walk" => level_in_range(trav.level)
        /\ trav.at = "loop" => trav.level \in 1..NUM_LEVELS
        /\ \A n \in 1..Len(nodes) : level_in_range(nodes[n].level)

C15_Witness ==
    /\ pc = "live" /\ NUM_LEVELS = WordBits
    /\ trav.op = "insert" /\ trav.at = "walk" /\ trav.level = 0
    /\ nodes[trav.new_node].level = NUM_LEVELS - 1
    /\ Len(inserted) >= 1
    /\ \E n \in 2..Len(nodes) : nodes[n].level = 0

\* C16: every step of the teardown loop releases exactly one node, the one the
\* loop's `node` points to, after taking its level-0 link, and goes on to the node
\* that link pointed to; the nested drop of the released node releases nothing, so
\* Drop::drop is never nested deeper than one call below the head's.
DropLoopStep == pc = "dropping" /\ pc' = "dropping" /\ node # None

C16_DropOneNodePerStep ==
    [][DropLoopStep =>
          /\ \A n \in 1..Len(nodes) :
                released'[n] = released[n] + (IF n = node THEN 1 ELSE 0)
          /\ node' = nodes[node].next[1]
          /\ nodes'[node].next[1] = None
          /\ \A n \in 1..Len(nodes) : n # node => nodes'[n] = nodes[n]
          /\ depth' <= 1]_vars

C16_Witness ==
    /\ pc = "dropping" /\ Len(nodes) = 4 /\ depth = 1
    /\ node # None /\ nodes[node].next[1] # None
    /\ \E n \in Elements : released[n] = 1 /\ nodes[n].level >= 1

\* C17: find_node_mut(v) returns the node find_node(v) returns, and a completed
\* insert(v) has put the new node at level 0 immediately after the node
\* find_node(v) returned on the list before the insert, and at every level k up to
\* its height immediately after the rightmost level-k node whose value is <= v.
SameSearch == Live => \A t \in Targets : find_node_mut(t) = find_node(t)

SplicedAfterFindNode ==
    \A new_node \in {Len(nodes')} : \A item \in {nodes'[new_node].val} :
        \A at \in {find_node(item)} :
            /\ nodes'[at].next[1] = new_node
            /\ nodes'[new_node].prev = at
            /\ nodes'[new_node].next[1] = nodes[at].next[1]
            /\ \A k \in 0..nodes'[new_node].level :
                  \A before \in {RightmostNotAbove(k, item)} :
                      /\ nodes'[before].next[k + 1] = new_node
                      /\ nodes'[new_node].next[k + 1] = nodes[before].next[k + 1]

C17_InsertUsesFindNode ==
    /\ []SameSearch
    /\ [][InsertDone => SplicedAfterFindNode]_vars

C17_Witness ==
    /\ Live /\ Len(inserted) = 3 /\ NUM_LEVELS >= 2
    /\ inserted[3] \in {inserted[1], inserted[2]}
    /\ nodes[4].level >= 1
    /\ nodes[4].prev # head
    /\ nodes[nodes[4].prev].val = nodes[4].val
    /\ find_node_mut(nodes[4].val) = 4

\* C18: every find (hence contains) and insert on a list built by inserts runs to
\* its end: the levels it visits are NUM_LEVELS-1, NUM_LEVELS-2, ... downward, each
\* once and all of them by the time it returns, the level-0 chain has no cycle,
\* and every advance moves to a node strictly further along that chain.
Running == pc = "live" /\ NUM_LEVELS >= 1 /\ trav.op \in {"find", "insert"}

DescendsOnce ==
    (pc = "live" /\ NUM_LEVELS >= 1) =>
        /\ \A i \in 1..Len(trav.visited) : trav.visited[i] = NUM_LEVELS - i
        /\ trav.op = "done" => Len(trav.visited) = NUM_LEVELS
        /\ \A c \in {Chain(0)} : IsInjective(c) /\ Len(c) <= Len(nodes)

Advance == Running /\ trav'.op = trav.op /\ trav'.node # trav.node

AdvanceGoesForward ==
    \A c \in {Chain(0)} :
        /\ Position0(c, trav'.node) > Position0(c, trav.node)
        /\ trav'.visited = trav.visited
        /\ nodes' = nodes

C18_OperationsTerminate ==
    /\ []DescendsOnce
    /\ [][Advance => AdvanceGoesForward]_vars
    /\ Running ~> (trav.op = "done")

C18_Witness ==
    /\ pc = "live" /\ NUM_LEVELS = WordBits
    /\ trav.op = "done" /\ trav.new_node # None
    /\ Len(trav.visited) = NUM_LEVELS
    /\ Len(inserted) = MaxStepInserts
    /\ nodes[trav.new_node].prev # head
    /\ nodes[trav.new_node].level \in 1..(NUM_LEVELS - 2)

\* C19: two runs that insert the same values in the same order, with heights drawn
\* independently, have the same level-0 value sequence after every insert, and
\* find and contains return the same result in both for every target.
C19_HeightsNotObservable ==
    Live =>
        /\ ValuesOf(Chain(0)) = TwinValuesOf(TwinChain)
        /\ \A t \in Targets : /\ find(t) = twin_find(t)
                              /\ contains(t) = twin_contains(t)

C19_Witness ==
    /\ Live /\ NUM_LEVELS >= 2 /\ Len(inserted) = MaxPairInserts
    /\ Len(twin) = Len(nodes)
    /\ nodes[2].level > twin[2].level
    /\ nodes[3].level < twin[3].level
    /\ inserted[1] > inserted[2]
    /\ contains(inserted[1]) /\ twin_contains(inserted[2])

====
